---------------------------- MODULE Spec2Model ----------------------------
(***************************************************************************)
(* State-machine model of the JS-interpreter dispatcher of yt-dlp          *)
(* (yt_dlp/jsinterp/common.py): the registries _JSI_HANDLERS and           *)
(* _JSI_PREFERENCES, the lookup filter_jsi_keys, JSIWrapper.__init__,      *)
(* JSIWrapper.execute with its require_features guard, _get_handlers and   *)
(* the loop of _dispatch_request.  The model-only variables ctor, request  *)
(* and log are call-count instrumentation: they record what the caller     *)
(* passed and which backend methods were entered.  register_jsi is also    *)
(* modelled statement by statement for threads that import modules at the  *)
(* same time, and RPlayBaseIE._playwright_eval (yt_dlp/extractor/rplay.py) *)
(* await by await.                                                         *)
(***************************************************************************)
EXTENDS Integers, Sequences, FiniteSets, TLC

VARIABLES
    JSI_HANDLERS,       \* _JSI_HANDLERS: the registered classes, in insertion order
    JSI_PREFERENCES,    \* _JSI_PREFERENCES: the registered global scorers
    params,             \* YoutubeDL.params: jsi_preference (a list) and test
    wrapper,            \* the fields of the JSIWrapper the caller holds
    ctor,               \* the last JSIWrapper(...) call: arguments, error, instances made
    lookup,             \* the last direct filter_jsi_keys / filter_jsi_feature call
    pc,                 \* position of the caller: idle, loop, inflight, done
    request,            \* the execute(...) call in progress: how html/cookiejar were passed
    preferences,        \* _get_handlers: the local dict preferences (key -> summed score)
    handlers,           \* _dispatch_request: the sorted candidate list
    idx,                \* _dispatch_request: index of the candidate the loop is at
    unavailable,        \* _dispatch_request: the local list unavailable
    exceptions,         \* _dispatch_request: the local list exceptions
    timedOut,           \* the in-flight call has run longer than the timeout
    outcome,            \* how the last call ended: value returned or error raised
    log,                \* backend methods entered by the current call, in order
    threads,            \* register_jsi: position of each thread that is importing a module
    bridge,             \* RPlayBaseIE._playwright_eval: position, arguments, browser, result
    helper              \* the last direct call of order_to_pref or extract_script_tags

vars == <<JSI_HANDLERS, JSI_PREFERENCES, params, wrapper, ctor, lookup, pc, request,
          preferences, handlers, idx, unavailable, exceptions, timedOut, outcome, log,
          threads, bridge, helper>>

regVars == <<JSI_HANDLERS, JSI_PREFERENCES>>
callVars == <<pc, request, preferences, handlers, idx, unavailable, exceptions,
              timedOut, outcome, log>>
wrapperVars == <<params, wrapper, ctor, lookup, callVars>>

----------------------------------------------------------------------------
(* Bounds of the model *)

\* longest ordered key list (preferred_order, jsi_preference) that is enumerated
MaxOrderLen == 2

\* longest key list passed to order_to_pref when it is called directly
MaxKeyListLen == 3

\* most pieces (tags and single characters) an html input is built from
MaxHtmlPieces == 6

\* most scorers registered with register_jsi_preference besides _base_preference
MaxPreferences == 1

\* length of the long preferred_order lists that are passed besides the
\* enumerated short ones
LongOrderLen == 102

----------------------------------------------------------------------------
(* Sequence helpers *)

Range(s) == {s[i] : i \in 1 .. Len(s)}

Reverse(s) == [i \in 1 .. Len(s) |-> s[Len(s) + 1 - i]]

Front(s) == SubSeq(s, 1, Len(s) - 1)

Last(s) == s[Len(s)]

SeqsUpTo(S, n) == UNION {[1 .. m -> S] : m \in 0 .. n}

RECURSIVE SumSeq(_)
SumSeq(s) == IF s = <<>> THEN 0 ELSE s[1] + SumSeq(Tail(s))

\* every ordering of the elements of a finite set
Permutations_(S) == {s \in [1 .. Cardinality(S) -> S] : Range(s) = S}

----------------------------------------------------------------------------
(* Capability model and the backend classes *)

ALL_FEATURES == {"wasm", "location", "dom", "cookies"}

\* tags a caller may pass that are not features
OtherTags == {"js", "canvas"}

Tags == ALL_FEATURES \cup OtherTags

\* The concrete JSI subclasses that register themselves.  Each overrides the
\* class attributes _SUPPORTED_FEATURES and _BASE_PREFERENCE of JSI.
JsiClasses == {"A", "B", "C"}

\* A registered subclass that has no execute method: JSI makes only
\* is_available abstract, the methods a wrapper forwards are optional.
LimitedClasses == {"D"}

\* Classes that an extension module may try to register: A2 is a second class
\* with the name of A (so with its key) and other features, W declares a
\* feature that is not in _ALL_FEATURES.
ExtensionClasses == {"A2", "W"}

\* a key no class has; it can appear in key lists a user or caller writes
UnknownKey == "Z"

AnyKeys == JsiClasses \cup {UnknownKey}

SUPPORTED_FEATURES(key) ==
    CASE key = "A" -> {"wasm", "location", "dom", "cookies"}
      [] key = "B" -> {"location", "dom", "cookies"}
      [] key = "C" -> {"wasm", "location"}
      [] key = "D" -> {"dom", "cookies"}
      [] key = "A2" -> {"location"}
      [] key = "W" -> {"dom", "js"}
      [] OTHER -> {}

BASE_PREFERENCE(key) ==
    CASE key = "A" -> 0
      [] key = "B" -> 3
      [] key = "C" -> 3
      [] key = "D" -> 5
      [] OTHER -> 0

\* the methods a JSI instance has (callable(getattr(h, method_name, None)))
METHODS(key) == IF key \in LimitedClasses THEN {} ELSE {"execute"}

\* JSI.JSI_KEY and JSI.JSI_NAME are both cls.__name__[:-3]
JSI_NAME(key) == key

\* JSI_KEY of a class: the class name is the key, but for A2, named like A.
\* An entry of JSI_HANDLERS is the class; its dict key is JSI_KEY of it, and
\* for A, B, C and D the two are the same string.
JSI_KEY(cls) == IF cls = "A2" THEN "A" ELSE cls

\* get_jsi_keys: strings are kept, classes and instances give their JSI_KEY
get_jsi_keys(jsi_or_keys) == jsi_or_keys

----------------------------------------------------------------------------
(* Lookup *)

\* a test for a shared feature instead of containment
IsSuperset_overlap(declared, features) == features \cap declared # {}

\* set.issuperset
IsSuperset(declared, features) == features \subseteq declared

\* the lookup with the only_include step left out
filter_jsi_keys_without_only_include(registry, features, only_include, exclude) ==
    LET keys1 == IF features # {}
                 THEN SelectSeq(registry, LAMBDA key :
                          IsSuperset(SUPPORTED_FEATURES(key), features))
                 ELSE registry
    IN  IF exclude # {}
        THEN SelectSeq(keys1, LAMBDA key : key \notin get_jsi_keys(exclude))
        ELSE keys1

\* the lookup with the features step left out
filter_jsi_keys_ignoring_features(registry, features, only_include, exclude) ==
    LET keys2 == IF only_include # <<>>
                 THEN SelectSeq(registry, LAMBDA key : key \in Range(get_jsi_keys(only_include)))
                 ELSE registry
    IN  IF exclude # {}
        THEN SelectSeq(keys2, LAMBDA key : key \notin get_jsi_keys(exclude))
        ELSE keys2

\* the lookup walking only_include, as filter_jsi_include does, instead of
\* the registry
filter_jsi_keys_in_include_order(registry, features, only_include, exclude) ==
    LET keys0 == IF only_include # <<>> THEN get_jsi_keys(only_include) ELSE registry
        keys1 == SelectSeq(keys0, LAMBDA key :
                     /\ key \in Range(registry)
                     /\ IsSuperset(SUPPORTED_FEATURES(key), features))
    IN  SelectSeq(keys1, LAMBDA key : key \notin get_jsi_keys(exclude))

\* filter_jsi_keys(features, only_include, exclude) over the registry;
\* only_include is a list, and only membership in exclude is read, so it is a
\* set here
filter_jsi_keys(registry, features, only_include, exclude) ==
    LET keys0 == registry
        keys1 == IF features # {}
                 THEN SelectSeq(keys0, LAMBDA key :
                          /\ key \in Range(registry)
                          /\ IsSuperset(SUPPORTED_FEATURES(key), features))
                 ELSE keys0
        keys2 == IF only_include # <<>>
                 THEN SelectSeq(keys1, LAMBDA key : key \in Range(get_jsi_keys(only_include)))
                 ELSE keys1
        keys3 == IF exclude # {}
                 THEN SelectSeq(keys2, LAMBDA key : key \notin get_jsi_keys(exclude))
                 ELSE keys2
    IN  keys3

\* filter_jsi_feature(features, keys=None)
filter_jsi_feature(registry, features) ==
    SelectSeq(registry, LAMBDA key :
        /\ key \in Range(registry)
        /\ IsSuperset(SUPPORTED_FEATURES(key), features))

----------------------------------------------------------------------------
(* Preference scoring *)

\* the scores without reversed(): the first entry gets the least
order_to_pref_unreversed(jsi_order, multiplier, key) ==
    LET at == {i \in 1 .. Len(jsi_order) : jsi_order[i] = key}
    IN  IF at = {} THEN 0
        ELSE (CHOOSE i \in at : \A j \in at : j <= i) * multiplier

\* order_to_pref(jsi_order, multiplier)(jsi): the dict comprehension over the
\* reversed list keeps, for a repeated key, the value of its last position there
order_to_pref(jsi_order, multiplier, key) ==
    LET rev == Reverse(get_jsi_keys(jsi_order))
        at  == {i \in 1 .. Len(rev) : rev[i] = key}
    IN  IF at = {} THEN 0
        ELSE (CHOOSE i \in at : \A j \in at : j <= i) * multiplier

\* weight of the operator-level list params['jsi_preference']
UserPrefMultiplier == 10000

\* weight of the preferred_order argument
PreferredOrderMultiplier == 100

\* _base_preference, registered for every class when the module is imported
BasePreferenceFunc == [kind |-> "base", types |-> {}, score |-> 0]

\* a function registered with register_jsi_preference(*types) that returns score
ConstPreferenceFunc(types, score) == [kind |-> "const", types |-> types, score |-> score]

\* the wrapper inner of register_jsi_preference, applied to a handler
CallPreference(pref_func, key) ==
    IF pref_func.types = {} \/ key \in pref_func.types
    THEN IF pref_func.kind = "base" THEN BASE_PREFERENCE(key) ELSE pref_func.score
    ELSE 0

\* a sum that marks down the backends that failed in the call before
SumPreferences_remembering_failures(w, key) ==
    order_to_pref(w.user_prefs, UserPrefMultiplier, key)
    + order_to_pref(w.preferred_order, PreferredOrderMultiplier, key)
    + SumSeq([i \in 1 .. Len(w.global_prefs) |-> CallPreference(w.global_prefs[i], key)])
    - (IF \E i \in 1 .. Len(exceptions) : exceptions[i].jsi = key THEN 1000000 ELSE 0)

\* the sum with the scorer of preferred_order left out of self.preferences
SumPreferences_without_preferred_order(w, key) ==
    order_to_pref(w.user_prefs, UserPrefMultiplier, key)
    + SumSeq([i \in 1 .. Len(w.global_prefs) |-> CallPreference(w.global_prefs[i], key)])

\* sum(pref_func(handler, ...) for pref_func in self.preferences)
SumPreferences(w, key) ==
    order_to_pref(w.user_prefs, UserPrefMultiplier, key)
    + order_to_pref(w.preferred_order, PreferredOrderMultiplier, key)
    + SumSeq([i \in 1 .. Len(w.global_prefs) |-> CallPreference(w.global_prefs[i], key)])

\* place h behind every element whose score is at least its own
InsertByPref(sorted, h, pref) ==
    LET p == Cardinality({j \in 1 .. Len(sorted) : pref[sorted[j]] >= pref[h]})
    IN  SubSeq(sorted, 1, p) \o <<h>> \o SubSeq(sorted, p + 1, Len(sorted))

RECURSIVE StableSortDesc(_, _)
StableSortDesc(s, pref) ==
    IF s = <<>> THEN <<>>
    ELSE InsertByPref(StableSortDesc(Front(s), pref), Last(s), pref)

\* a candidate list that holds every handler twice
SortedHandlers_twice(hs, pref) == StableSortDesc(hs, pref) \o StableSortDesc(hs, pref)

\* the sort without reverse=True
SortedHandlers_ascending(hs, pref) == Reverse(StableSortDesc(hs, pref))

\* sorted(handlers, key=lambda h: preferences[h.JSI_KEY], reverse=True)
SortedHandlers(hs, pref) == StableSortDesc(hs, pref)

----------------------------------------------------------------------------
(* Values *)

NoWrapper ==
    [alive |-> FALSE, features |-> {}, handler_dict |-> <<>>, user_prefs |-> <<>>,
     preferred_order |-> <<>>, global_prefs |-> <<>>, fallback_jsi |-> {},
     is_test |-> FALSE]

NoError == [kind |-> "none", tags |-> {}]

NoCtor ==
    [called |-> FALSE, features |-> {}, only_include |-> <<>>, exclude |-> {},
     preferred_order |-> <<>>, fallback_jsi |-> [all |-> FALSE, keys |-> {}],
     jsi_preference |-> <<>>, warnings |-> <<>>,
     error |-> NoError, instantiated |-> <<>>]

NoLookup == [called |-> FALSE, registry |-> <<>>, features |-> {}, only_include |-> <<>>,
             exclude |-> {}, keys |-> <<>>, by_feature |-> <<>>]

NoRequest == [method_name |-> "", html |-> "absent", cookiejar |-> "absent"]

NoOutcome == [kind |-> "none", by |-> "", value |-> "", late |-> FALSE,
              message |-> "", listed |-> <<>>, n_errors |-> 0]

NoHelper == [fn |-> ""]

\* the threads that may import a module that registers a class
Threads == {"t1", "t2"}

NoThread == [pc |-> "idle", cls |-> "", result |-> ""]

NoBridge == [pc |-> "idle", goto |-> FALSE, wait_until |-> "", stop_loading |-> FALSE,
             browser |-> "none", hung |-> FALSE, timed_out |-> FALSE,
             result |-> "none", value |-> ""]

----------------------------------------------------------------------------
(* Registration *)

\* the keys of the dict, in insertion order
RegisteredKeys(registry) == [i \in 1 .. Len(registry) |-> JSI_KEY(registry[i])]

\* assertions that are compiled away
RegisterAssertions_disabled(registry, jsi_cls) == TRUE

\* the assertions of register_jsi: every class of the model is a subclass of
\* JSI, the key is not registered, the features are declared
RegisterAssertions(registry, jsi_cls) ==
    /\ JSI_KEY(jsi_cls) \notin Range(RegisteredKeys(registry))
    /\ SUPPORTED_FEATURES(jsi_cls) \subseteq ALL_FEATURES

\* _JSI_HANDLERS[jsi_cls.JSI_KEY] = jsi_cls: a key that is present keeps its
\* place and gets the new class, a new key is added behind the others
StoreHandler(registry, jsi_cls) ==
    IF JSI_KEY(jsi_cls) \in Range(RegisteredKeys(registry))
    THEN [i \in 1 .. Len(registry) |->
             IF JSI_KEY(registry[i]) = JSI_KEY(jsi_cls) THEN jsi_cls ELSE registry[i]]
    ELSE Append(registry, jsi_cls)

\* register_jsi(jsi_cls), called while a module is imported by the main
\* thread: the assertions, then the insertion
RegisterJsi(jsi_cls) ==
    /\ pc = "idle"
    /\ ~wrapper.alive
    /\ threads["t1"].pc # "asserted"
    /\ IF RegisterAssertions(JSI_HANDLERS, jsi_cls)
       THEN /\ JSI_HANDLERS' = StoreHandler(JSI_HANDLERS, jsi_cls)
            /\ threads' = [threads EXCEPT !["t1"] =
                              [pc |-> "done", cls |-> jsi_cls, result |-> "registered"]]
       ELSE /\ UNCHANGED JSI_HANDLERS
            /\ threads' = [threads EXCEPT !["t1"] =
                              [pc |-> "done", cls |-> jsi_cls, result |-> "AssertionError"]]
    /\ UNCHANGED <<JSI_PREFERENCES, bridge, helper, wrapperVars>>

\* register_jsi(jsi_cls) in a thread that can be switched out between two
\* statements: the assertions, lines 282 to 284
RegisterJsiAssert(t, jsi_cls) ==
    /\ threads[t].pc # "asserted"
    /\ threads' = [threads EXCEPT ![t] =
                      IF RegisterAssertions(JSI_HANDLERS, jsi_cls)
                      THEN [pc |-> "asserted", cls |-> jsi_cls, result |-> ""]
                      ELSE [pc |-> "done", cls |-> jsi_cls, result |-> "AssertionError"]]
    /\ UNCHANGED <<regVars, bridge, helper, wrapperVars>>

\* the insertion, line 285, and the return
RegisterJsiStore(t) ==
    /\ threads[t].pc = "asserted"
    /\ JSI_HANDLERS' = StoreHandler(JSI_HANDLERS, threads[t].cls)
    /\ threads' = [threads EXCEPT ![t] = [@ EXCEPT !.pc = "done", !.result = "registered"]]
    /\ UNCHANGED <<JSI_PREFERENCES, bridge, helper, wrapperVars>>

\* register_jsi_preference(*types)(pref_func), pref_func returning score
RegisterJsiPreference(types, score) ==
    /\ pc = "idle"
    /\ ~wrapper.alive
    /\ Len(JSI_PREFERENCES) < 1 + MaxPreferences
    /\ types \subseteq JsiClasses
    /\ JSI_PREFERENCES' = Append(JSI_PREFERENCES, ConstPreferenceFunc(types, score))
    /\ UNCHANGED <<JSI_HANDLERS, threads, bridge, helper, params, wrapper, ctor, lookup, callVars>>

\* a direct call of filter_jsi_keys and of filter_jsi_feature; both only
\* read the registry, so one call per behaviour shows every result
Lookup(features, only_include, exclude) ==
    /\ pc = "idle"
    /\ ~lookup.called
    /\ lookup' = [called |-> TRUE, registry |-> JSI_HANDLERS, features |-> features,
                  only_include |-> only_include, exclude |-> exclude,
                  keys |-> filter_jsi_keys(JSI_HANDLERS, features, only_include, exclude),
                  by_feature |-> filter_jsi_feature(JSI_HANDLERS, features)]
    /\ UNCHANGED <<regVars, threads, bridge, helper, params, wrapper, ctor, callVars>>

----------------------------------------------------------------------------
(* JSIWrapper.__init__ *)

\* list.remove(x): drop the first occurrence of x
RECURSIVE RemoveFirst(_, _)
RemoveFirst(s, x) ==
    IF s = <<>> THEN <<>>
    ELSE IF s[1] = x THEN Tail(s)
    ELSE <<s[1]>> \o RemoveFirst(Tail(s), x)

RECURSIVE RemoveEach(_, _)
RemoveEach(s, xs) ==
    IF xs = <<>> THEN s ELSE RemoveEach(RemoveFirst(s, xs[1]), Tail(xs))

\* the keys the loop reports with report_warning, in the order of the list
InvalidPrefs(user_prefs, registry) ==
    SelectSeq(user_prefs, LAMBDA k : k \notin Range(registry))

\* the list left as the user wrote it
DropInvalidPrefs_keeping_all(user_prefs, registry) == user_prefs

\* the loop over the invalid keys of params['jsi_preference'], which removes
\* each of them from that very list
DropInvalidPrefs(user_prefs, registry) ==
    RemoveEach(user_prefs, SelectSeq(user_prefs, LAMBDA k : k \notin Range(registry)))

\* the difference taken the wrong way round
UnsupportedFeatures_inverted(features) == ALL_FEATURES \ features

\* self._features - _ALL_FEATURES
UnsupportedFeatures(features) == features \ ALL_FEATURES

\* self._fallback_jsi
FallbackJsi(fallback_jsi, handler_classes) ==
    IF fallback_jsi.all THEN Range(get_jsi_keys(handler_classes))
    ELSE get_jsi_keys(fallback_jsi.keys)

ResetCall ==
    /\ pc' = "idle"
    /\ request' = NoRequest
    /\ preferences' = <<>>
    /\ handlers' = <<>>
    /\ idx' = 0
    /\ unavailable' = <<>>
    /\ exceptions' = <<>>
    /\ timedOut' = FALSE
    /\ outcome' = NoOutcome
    /\ log' = <<>>

\* JSIWrapper(dl, url, features, only_include, exclude, jsi_params,
\*            preferred_order, fallback_jsi, timeout, user_agent).  The
\* constructor reads only the registries and params, never an older wrapper
\* or its calls, and it leaves in params a list that Init draws as well: a
\* second construction is a first one from another initial state.
Construct(features, only_include, exclude, preferred_order, fallback_jsi) ==
    /\ pc = "idle"
    /\ ~ctor.called
    /\ LET args == [called |-> TRUE, features |-> features,
                    only_include |-> only_include, exclude |-> exclude,
                    preferred_order |-> preferred_order,
                    fallback_jsi |-> fallback_jsi,
                    jsi_preference |-> params.jsi_preference,
                    warnings |-> IF UnsupportedFeatures(features) # {} THEN <<>>
                                 ELSE InvalidPrefs(params.jsi_preference, JSI_HANDLERS),
                    error |-> NoError, instantiated |-> <<>>]
           user_prefs == DropInvalidPrefs(params.jsi_preference, JSI_HANDLERS)
           handler_classes == filter_jsi_keys(JSI_HANDLERS, features, only_include, exclude)
       IN  IF UnsupportedFeatures(features) # {}
           THEN /\ ctor' = [args EXCEPT !.error =
                               [kind |-> "Unsupported features",
                                tags |-> UnsupportedFeatures(features)]]
                /\ wrapper' = NoWrapper
                /\ UNCHANGED params
           ELSE IF handler_classes = <<>>
           THEN /\ ctor' = [args EXCEPT !.error =
                               [kind |-> "No JSI supports features", tags |-> features]]
                /\ wrapper' = NoWrapper
                /\ params' = [params EXCEPT !.jsi_preference = user_prefs]
           ELSE /\ ctor' = [args EXCEPT !.instantiated = handler_classes]
                /\ wrapper' = [alive |-> TRUE,
                               features |-> features,
                               handler_dict |-> handler_classes,
                               user_prefs |-> user_prefs,
                               preferred_order |-> preferred_order,
                               global_prefs |-> JSI_PREFERENCES,
                               fallback_jsi |-> FallbackJsi(fallback_jsi, handler_classes),
                               is_test |-> params.test]
                /\ params' = [params EXCEPT !.jsi_preference = user_prefs]
    /\ ResetCall
    /\ UNCHANGED <<regVars, threads, bridge, helper, lookup>>

----------------------------------------------------------------------------
(* JSIWrapper.execute, _get_handlers, _dispatch_request *)

\* the decorator argument of execute: keyword name -> required feature
ParamFeatures == [location |-> "location", html |-> "dom", cookiejar |-> "cookies"]

\* the keyword names in the order the dict is walked
ParamNames == <<"location", "html", "cookiejar">>

\* kw_name in kwargs: execute has no location parameter, and an argument
\* passed by position is in args, not in kwargs
InKwargs(req, kw_name) ==
    CASE kw_name = "html" -> req.html = "keyword"
      [] kw_name = "cookiejar" -> req.cookiejar = "keyword"
      [] OTHER -> FALSE

\* require_features.inner: the keyword names for which it raises
MissingFeatureParams(features, req) ==
    SelectSeq(ParamNames, LAMBDA kw_name :
        /\ InKwargs(req, kw_name)
        /\ ~IsSuperset(features, {ParamFeatures[kw_name]}))

\* every instance taken, whatever methods it has
HandlersFor_unfiltered(handler_dict, method_name) == handler_dict

\* [h for h in self._handler_dict.values() if callable(getattr(h, method_name, None))]
HandlersFor(handler_dict, method_name) ==
    SelectSeq(handler_dict, LAMBDA key : method_name \in METHODS(key))

Raise(kind, by, message, listed, n_errors) ==
    [kind |-> kind, by |-> by, value |-> "", late |-> timedOut,
     message |-> message, listed |-> listed, n_errors |-> n_errors]

\* wrapper.execute(jscode, video_id, note, html, cookiejar): the guard of
\* require_features, then _dispatch_request up to the head of its loop
Execute(html, cookiejar) ==
    /\ pc \in {"idle", "done"}
    /\ wrapper.alive
    /\ LET req == [method_name |-> "execute", html |-> html, cookiejar |-> cookiejar]
           missing == MissingFeatureParams(wrapper.features, req)
           hs == HandlersFor(wrapper.handler_dict, req.method_name)
           prefs == [key \in Range(hs) |-> SumPreferences(wrapper, key)]
       IN  /\ request' = req
           /\ log' = <<>>
           /\ unavailable' = <<>>
           /\ exceptions' = <<>>
           /\ timedOut' = FALSE
           /\ IF missing # <<>>
              THEN /\ pc' = "done"
                   /\ outcome' = [Raise("ExtractorError", "", "feature is required for param but not declared",
                                        <<missing[1]>>, 0) EXCEPT !.late = FALSE]
                   /\ preferences' = <<>>
                   /\ handlers' = <<>>
                   /\ idx' = 0
              ELSE IF hs = <<>>
              THEN /\ pc' = "done"
                   /\ outcome' = [Raise("ExtractorError", "", "No JSI supports method",
                                        wrapper.handler_dict, 0) EXCEPT !.late = FALSE]
                   /\ preferences' = <<>>
                   /\ handlers' = <<>>
                   /\ idx' = 0
              ELSE /\ pc' = "loop"
                   /\ outcome' = NoOutcome
                   /\ preferences' = prefs
                   /\ handlers' = SortedHandlers(hs, prefs)
                   /\ idx' = 1
    /\ UNCHANGED <<regVars, threads, bridge, helper, params, wrapper, ctor, lookup>>

Handler == handlers[idx]

LogProbe(key, result) == [op |-> "is_available", key |-> key, result |-> result]
LogCall(key, result) == [op |-> request.method_name, key |-> key, result |-> result]

\* a loop that re-raises whatever the fallback list says
NoFallback_ignoring_fallback_jsi(key) == TRUE

\* handler.JSI_KEY not in self._fallback_jsi
NoFallback(key) == key \notin wrapper.fallback_jsi

\* a dispatcher that is never in test mode
IsTest_never(w) == FALSE

\* self._is_test
IsTest(w) == w.is_test

\* one turn of the loop up to the call of the method: handler.is_available()
\* answers available
Probe(available) ==
    /\ pc = "loop"
    /\ idx <= Len(handlers)
    /\ IF ~available
       THEN /\ log' = Append(log, LogProbe(Handler, "False"))
            /\ IF IsTest(wrapper)
               THEN /\ pc' = "done"
                    /\ outcome' = Raise("ExtractorError", Handler,
                                        "is not available for testing", <<JSI_NAME(Handler)>>, 0)
                    /\ UNCHANGED <<unavailable, idx>>
               ELSE /\ unavailable' = Append(unavailable, JSI_NAME(Handler))
                    /\ idx' = idx + 1
                    /\ UNCHANGED <<pc, outcome>>
       ELSE /\ log' = Append(Append(log, LogProbe(Handler, "True")), LogCall(Handler, "running"))
            /\ pc' = "inflight"
            /\ UNCHANGED <<unavailable, idx, outcome>>
    /\ UNCHANGED <<regVars, threads, bridge, helper, params, wrapper, ctor, lookup, request, preferences,
                   handlers, exceptions, timedOut>>

EndLog(result) == [log EXCEPT ![Len(log)].result = result]

\* the timeout given to the wrapper passes while the method runs; the
\* dispatcher has no code for it
TimeoutPasses ==
    /\ pc = "inflight"
    /\ ~timedOut
    /\ timedOut' = TRUE
    /\ UNCHANGED <<regVars, threads, bridge, helper, params, wrapper, ctor, lookup, pc, request, preferences,
                   handlers, idx, unavailable, exceptions, outcome, log>>

\* return getattr(handler, method_name)(*args, **kwargs)
MethodReturns(value) ==
    /\ pc = "inflight"
    /\ pc' = "done"
    /\ outcome' = [kind |-> "returned", by |-> Handler, value |-> value, late |-> timedOut,
                   message |-> "", listed |-> <<>>, n_errors |-> 0]
    /\ log' = EndLog("returned")
    /\ UNCHANGED <<regVars, threads, bridge, helper, params, wrapper, ctor, lookup, request, preferences,
                   handlers, idx, unavailable, exceptions, timedOut>>

\* the errors a backend method reports on its own account
ExtractorErrors == {"ExtractorError"}

\* what else can come out of a running method: the user's interrupt
OtherExceptions == {"KeyboardInterrupt"}

\* except BaseException
Caught_anything(exc) == TRUE

\* an except clause for a class the methods never raise
Caught_nothing(exc) == FALSE

\* except ExtractorError as e: does the clause match the exception
Caught(exc) == exc \in ExtractorErrors

\* the method raises exc.  An ExtractorError is re-raised or recorded;
\* anything else (KeyboardInterrupt, ...) matches no except clause
MethodRaises(exc) ==
    /\ pc = "inflight"
    /\ log' = EndLog(exc)
    /\ IF Caught(exc) /\ ~NoFallback(Handler)
       THEN /\ exceptions' = Append(exceptions,
                                    [jsi |-> Handler, error |-> exc, late |-> timedOut])
            /\ idx' = idx + 1
            /\ pc' = "loop"
            /\ timedOut' = FALSE
            /\ UNCHANGED outcome
       ELSE /\ pc' = "done"
            /\ outcome' = Raise(exc, Handler, "exception of the handler", <<>>, 0)
            /\ UNCHANGED <<exceptions, idx, timedOut>>
    /\ UNCHANGED <<regVars, threads, bridge, helper, params, wrapper, ctor, lookup, request, preferences,
                   handlers, unavailable>>

\* the test of exceptions inverted
ExhaustedMessage_inverted(unav, excs) ==
    IF excs # <<>>
    THEN Raise("ExtractorError", "", "No available JSI installed, please install one of", unav, 0)
    ELSE IF unav # <<>>
    THEN Raise("ExtractorError", "", "Failed to perform, total errors. You can try installing one of unavailable JSI",
               unav, Len(excs))
    ELSE Raise("ExtractorError", "", "Failed to perform, total errors", <<>>, Len(excs))

\* the message of the ExtractorError raised behind the loop
ExhaustedMessage(unav, excs) ==
    IF excs = <<>>
    THEN Raise("ExtractorError", "", "No available JSI installed, please install one of", unav, 0)
    ELSE IF unav # <<>>
    THEN Raise("ExtractorError", "", "Failed to perform, total errors. You can try installing one of unavailable JSI",
               unav, Len(excs))
    ELSE Raise("ExtractorError", "", "Failed to perform, total errors", <<>>, Len(excs))

\* the loop is over
Exhausted ==
    /\ pc = "loop"
    /\ idx > Len(handlers)
    /\ pc' = "done"
    /\ outcome' = ExhaustedMessage(unavailable, exceptions)
    /\ UNCHANGED <<regVars, threads, bridge, helper, params, wrapper, ctor, lookup, request, preferences,
                   handlers, idx, unavailable, exceptions, timedOut, log>>

----------------------------------------------------------------------------
(* RPlayBaseIE._playwright_eval: the blocking call that drives a browser *)

\* what an awaited step can raise: playwright's Error and InvalidStateError
\* are Exceptions, asyncio.CancelledError is a BaseException only
BridgeExceptions == {"Error", "InvalidStateError", "CancelledError"}

\* how an awaited step can end: it completes, it raises, or it never completes
StepResults == {"ok", "hang"} \cup BridgeExceptions

\* except Exception
IsException(exc) == exc \in {"Error", "InvalidStateError"}

\* __aeval returns value, and asyncio.run hands it to the caller
BridgeReturn(b, value) == [b EXCEPT !.pc = "done", !.result = "returned", !.value = value]

\* an exception leaves __aeval and asyncio.run; the caller gets it, unless it
\* is an InvalidStateError, which is passed over so that None is returned
BridgeRaise(b, exc) ==
    IF exc = "InvalidStateError"
    THEN BridgeReturn(b, "None")
    ELSE [b EXCEPT !.pc = "done", !.result = exc]

\* await browser.close()
CloseBrowser(b) == [b EXCEPT !.browser = "closed"]

\* self._playwright_eval(jscode, goto, wait_until, stop_loading) is called
PlaywrightEval(goto, wait_until, stop_loading) ==
    /\ bridge.pc = "idle"
    /\ bridge' = [NoBridge EXCEPT !.pc = "launch", !.goto = goto,
                                  !.wait_until = wait_until, !.stop_loading = stop_loading]
    /\ UNCHANGED <<regVars, threads, helper, wrapperVars>>

\* browser = await p.chromium.launch(chromium_sandbox=True)
Launch(res) ==
    /\ bridge.pc = "launch" /\ ~bridge.hung
    /\ bridge' = CASE res = "ok" -> [bridge EXCEPT !.pc = "new_page", !.browser = "open"]
                    [] res = "hang" -> [bridge EXCEPT !.hung = TRUE]
                    [] OTHER -> BridgeRaise(bridge, res)
    /\ UNCHANGED <<regVars, threads, helper, wrapperVars>>

\* page = await browser.new_page(), outside every try
NewPage(res) ==
    /\ bridge.pc = "new_page" /\ ~bridge.hung
    /\ bridge' = CASE res = "ok" ->
                         [bridge EXCEPT !.pc = IF bridge.goto THEN "goto" ELSE "evaluate"]
                    [] res = "hang" -> [bridge EXCEPT !.hung = TRUE]
                    [] OTHER -> BridgeRaise(bridge, res)
    /\ UNCHANGED <<regVars, threads, helper, wrapperVars>>

\* a step of the try block under "if goto": an Exception is reported, the
\* browser is closed and None is returned; anything else leaves the block
NavigationStep(res, next) ==
    CASE res = "ok" -> [bridge EXCEPT !.pc = next]
      [] res = "hang" -> [bridge EXCEPT !.hung = TRUE]
      [] IsException(res) -> BridgeReturn(CloseBrowser(bridge), "None")
      [] OTHER -> BridgeRaise(bridge, res)

\* await page.goto(goto, wait_until=wait_until)
Goto(res) ==
    /\ bridge.pc = "goto" /\ ~bridge.hung
    /\ bridge' = NavigationStep(res, IF bridge.stop_loading THEN "stop" ELSE "evaluate")
    /\ UNCHANGED <<regVars, threads, helper, wrapperVars>>

\* await page.evaluate('window.stop();')
StopLoading(res) ==
    /\ bridge.pc = "stop" /\ ~bridge.hung
    /\ bridge' = NavigationStep(res, "evaluate")
    /\ UNCHANGED <<regVars, threads, helper, wrapperVars>>

\* value = await asyncio.wait_for(page.evaluate(jscode), timeout=10), with
\* its finally clause: the evaluation completes, raises, or goes on running
Evaluate(res) ==
    /\ bridge.pc = "evaluate" /\ ~bridge.hung
    /\ bridge' = CASE res = "ok" -> BridgeReturn(CloseBrowser(bridge), "value")
                    [] res = "hang" -> [bridge EXCEPT !.hung = TRUE]
                    [] OTHER -> BridgeRaise(CloseBrowser(bridge), res)
    /\ UNCHANGED <<regVars, threads, helper, wrapperVars>>

\* the ten seconds of wait_for pass: except asyncio.TimeoutError sets value
\* to None, finally closes the browser, and None is returned
EvaluateTimeout ==
    /\ bridge.pc = "evaluate" /\ bridge.hung
    /\ bridge' = BridgeReturn(CloseBrowser([bridge EXCEPT !.timed_out = TRUE]), "None")
    /\ UNCHANGED <<regVars, threads, helper, wrapperVars>>

----------------------------------------------------------------------------
(* Specifications *)

ReturnValues == {"stdout", "None"}

ParamModes == {"absent", "keyword", "positional"}

\* the calls of execute that are enumerated: at most one optional parameter
Requests == {r \in ParamModes \X ParamModes : r[1] = "absent" \/ r[2] = "absent"}

Dispatch ==
    \/ \E r \in Requests : Execute(r[1], r[2])
    \/ \E available \in BOOLEAN : Probe(available)
    \/ TimeoutPasses
    \/ \E value \in ReturnValues : MethodReturns(value)
    \/ \E exc \in ExtractorErrors \cup OtherExceptions : MethodRaises(exc)
    \/ Exhausted

InitCall ==
    /\ pc = "idle"
    /\ request = NoRequest
    /\ preferences = <<>>
    /\ handlers = <<>>
    /\ idx = 0
    /\ unavailable = <<>>
    /\ exceptions = <<>>
    /\ timedOut = FALSE
    /\ outcome = NoOutcome
    /\ log = <<>>
    /\ threads = [t \in Threads |-> NoThread]
    /\ bridge = NoBridge
    /\ helper = NoHelper

\* every class has registered itself; the user gave no jsi_preference
Init ==
    /\ JSI_HANDLERS \in Permutations_(JsiClasses \cup LimitedClasses)
    /\ JSI_PREFERENCES = <<BasePreferenceFunc>>
    /\ params \in [jsi_preference : {<<>>}, test : BOOLEAN]
    /\ wrapper = NoWrapper
    /\ ctor = NoCtor
    /\ lookup = NoLookup
    /\ InitCall

\* the feature sets passed to the constructor: three that are supported, and
\* every set that holds a tag outside _ALL_FEATURES
FeatureChoices ==
    {{}, {"dom"}, {"wasm", "dom"}} \cup {f \in SUBSET Tags : f \cap OtherTags # {}}

FilterChoices == {<<<<>>, {}>>, <<<<"B">>, {}>>, <<<<>>, {"B"}>>, <<<<"A", "C">>, {"C"}>>,
                  <<<<"D">>, {}>>, <<<<"C", "B">>, {}>>}

OrderChoices == {<<>>, <<"A">>, <<"C", "A">>}

FallbackChoices == {[all |-> TRUE, keys |-> {}], [all |-> FALSE, keys |-> {}],
                    [all |-> FALSE, keys |-> {"B"}], [all |-> FALSE, keys |-> {"A", "C"}]}

Next ==
    \/ /\ ~ctor.called
       /\ \E f \in FeatureChoices, io \in FilterChoices, po \in OrderChoices,
             fb \in FallbackChoices : Construct(f, io[1], io[2], po, fb)
    \/ Dispatch

Spec == Init /\ [][Next]_vars

\* the lookup functions called directly while the classes register
InitLookup ==
    /\ JSI_HANDLERS = <<>>
    /\ JSI_PREFERENCES = <<BasePreferenceFunc>>
    /\ params = [jsi_preference |-> <<>>, test |-> FALSE]
    /\ wrapper = NoWrapper
    /\ ctor = NoCtor
    /\ lookup = NoLookup
    /\ InitCall

\* the only_include lists of the direct lookups: the classes in any order
IncludeLists == UNION {Permutations_(S) : S \in SUBSET JsiClasses}

NextLookup ==
    \/ /\ ~lookup.called
       /\ \E key \in JsiClasses : RegisterJsi(key)
    \/ /\ ~lookup.called
       /\ \E f \in SUBSET Tags, i \in IncludeLists, e \in SUBSET JsiClasses :
             Lookup(f, i, e)

SpecLookup == InitLookup /\ [][NextLookup]_vars

\* scoring: the user's jsi_preference, registered scorers and preferred_order
\* are enumerated; the wrapper takes every class
InitPref ==
    /\ JSI_HANDLERS = <<"A", "B", "C">>
    /\ JSI_PREFERENCES = <<BasePreferenceFunc>>
    /\ params \in [jsi_preference : SeqsUpTo(AnyKeys, MaxOrderLen), test : {FALSE}]
    /\ wrapper = NoWrapper
    /\ ctor = NoCtor
    /\ lookup = NoLookup
    /\ InitCall

ScorerTypes == {{}} \cup {{key} : key \in JsiClasses}

\* a list of n keys: first, then pad over and over, then last
PaddedOrder(first, pad, last, n) ==
    [i \in 1 .. n |-> IF i = 1 THEN first ELSE IF i = n THEN last ELSE pad]

\* long preferred_order lists: one padded with a key that is not registered,
\* one padded with a repeated key
LongOrders == {PaddedOrder("C", UnknownKey, "B", LongOrderLen),
               PaddedOrder("B", "A", "C", LongOrderLen)}

NextPref ==
    \/ \E types \in ScorerTypes : RegisterJsiPreference(types, 2)
    \/ /\ ~ctor.called
       /\ \E po \in SeqsUpTo(AnyKeys, MaxOrderLen) \cup LongOrders :
             Construct({}, <<>>, {}, po, [all |-> TRUE, keys |-> {}])
    \/ Execute("absent", "absent")

SpecPref == InitPref /\ [][NextPref]_vars

\* order_to_pref(jsi_order, multiplier) called directly, and the function it
\* returns applied to an instance of every key
OrderToPref(jsi_order, multiplier) ==
    /\ helper' = [fn |-> "order_to_pref", jsi_order |-> jsi_order,
                  multiplier |-> multiplier,
                  result |-> [key \in AnyKeys |-> order_to_pref(jsi_order, multiplier, key)]]
    /\ UNCHANGED <<regVars, threads, bridge, wrapperVars>>

\* the multipliers the constructor uses, and 1
Multipliers == {1, PreferredOrderMultiplier, UserPrefMultiplier}

NextOrder ==
    /\ helper = NoHelper
    /\ \E jsi_order \in SeqsUpTo(AnyKeys, MaxKeyListLen), multiplier \in Multipliers :
          OrderToPref(jsi_order, multiplier)

SpecOrder == InitLookup /\ [][NextOrder]_vars

(* _helper.extract_script_tags; a str is a sequence of characters and an
   index counts from 0, as in the source *)

\* s[a:b]
Slice(s, a, b) ==
    LET hi == IF b < Len(s) THEN b ELSE Len(s)
    IN  IF a + 1 > hi THEN <<>> ELSE SubSeq(s, a + 1, hi)

\* s.startswith(pat, at)
StartsAt(s, at, pat) ==
    /\ at + Len(pat) <= Len(s)
    /\ \A k \in 1 .. Len(pat) : s[at + k] = pat[k]

\* s.find(pat, from): the lowest index at or after from, or -1
find(s, pat, from) ==
    LET hits == {i \in from .. Len(s) - Len(pat) : StartsAt(s, i, pat)}
    IN  IF hits = {} THEN -1 ELSE CHOOSE i \in hits : \A j \in hits : i <= j

ScriptOpen == <<"<", "s", "c", "r", "i", "p", "t">>
ScriptClose == <<"<", "/", "s", "c", "r", "i", "p", "t", ">">>

\* re.search(r'<script[^>]*>', html, pos): <<start, end>> of the first match at
\* or after pos, <<>> without one; [^>]* stops at the first '>'
SearchScriptTag(html, pos) ==
    LET hits == {i \in pos .. Len(html) - Len(ScriptOpen) :
                    /\ StartsAt(html, i, ScriptOpen)
                    /\ find(html, <<">">>, i + Len(ScriptOpen)) # -1}
    IN  IF hits = {} THEN <<>>
        ELSE LET start == CHOOSE i \in hits : \A j \in hits : i <= j
             IN  <<start, find(html, <<">">>, start + Len(ScriptOpen)) + 1>>

\* re.finditer(r'<script[^>]*>', html): the matches from left to right, each
\* search starting where the previous match ended
RECURSIVE FindIter(_, _)
FindIter(html, pos) ==
    LET m == SearchScriptTag(html, pos)
    IN  IF m = <<>> THEN <<>> ELSE <<m>> \o FindIter(html, m[2])

\* the first loop: a match is recorded when '</script>' is found after a body
\* of at least one character
RECURSIVE CollectScripts(_, _)
CollectScripts(html, matches) ==
    IF matches = <<>> THEN [script_indicies |-> <<>>, inline_scripts |-> <<>>]
    ELSE LET match_start == Head(matches)
             end == find(html, ScriptClose, match_start[2])
             rest == CollectScripts(html, Tail(matches))
         IN  IF end > match_start[2]
             THEN [script_indicies |->
                       <<(<<match_start[1], end + Len(ScriptClose)>>)>> \o rest.script_indicies,
                   inline_scripts |->
                       <<Slice(html, match_start[2], end)>> \o rest.inline_scripts]
             ELSE rest

\* the second loop: html = html[:start] + html[end:] for each recorded pair,
\* the pairs being offsets into the html that was passed in
RECURSIVE RemoveRanges(_, _)
RemoveRanges(html, script_indicies) ==
    IF script_indicies = <<>> THEN html
    ELSE LET start == Head(script_indicies)[1]
             end == Head(script_indicies)[2]
         IN  RemoveRanges(Slice(html, 0, start) \o Slice(html, end, Len(html)),
                          Tail(script_indicies))

extract_script_tags(html) ==
    LET found == CollectScripts(html, FindIter(html, 0))
    IN  [html |-> RemoveRanges(html, found.script_indicies),
         inline_scripts |-> found.inline_scripts]

\* extract_script_tags(html) called
ExtractScriptTags(html) ==
    /\ helper' = [fn |-> "extract_script_tags", html |-> html,
                  result |-> extract_script_tags(html)]
    /\ UNCHANGED <<regVars, threads, bridge, wrapperVars>>

\* the pieces of the html inputs: the two tags and two other characters
HtmlPieces == {ScriptOpen \o <<">">>, ScriptClose, <<"a">>, <<"b">>}

RECURSIVE Concat(_)
Concat(pieces) ==
    IF pieces = <<>> THEN <<>> ELSE Head(pieces) \o Concat(Tail(pieces))

NextScripts ==
    /\ helper = NoHelper
    /\ \E pieces \in SeqsUpTo(HtmlPieces, MaxHtmlPieces) :
          ExtractScriptTags(Concat(pieces))

SpecScripts == InitLookup /\ [][NextScripts]_vars

\* the classes that modules try to register, each any number of times
RegisterClasses == JsiClasses \cup LimitedClasses \cup ExtensionClasses

NextRegister == \E jsi_cls \in RegisterClasses : RegisterJsi(jsi_cls)

SpecRegister == InitLookup /\ [][NextRegister]_vars

\* two threads import modules that register classes
NextConcurrent ==
    \/ \E t \in Threads, jsi_cls \in RegisterClasses : RegisterJsiAssert(t, jsi_cls)
    \/ \E t \in Threads : RegisterJsiStore(t)

SpecConcurrent == InitLookup /\ [][NextConcurrent]_vars

\* one call of _playwright_eval, every awaited step ending in every way
WaitUntil == {"commit", "load"}

NextBridge ==
    \/ \E goto \in BOOLEAN, wait_until \in WaitUntil, stop_loading \in BOOLEAN :
          PlaywrightEval(goto, wait_until, stop_loading)
    \/ \E res \in StepResults : Launch(res)
    \/ \E res \in StepResults : NewPage(res)
    \/ \E res \in StepResults : Goto(res)
    \/ \E res \in StepResults : StopLoading(res)
    \/ \E res \in StepResults : Evaluate(res)
    \/ EvaluateTimeout

SpecBridge == InitLookup /\ [][NextBridge]_vars

\* the event loop runs every step that can run
SpecBridgeLive == InitLookup /\ [][NextBridge]_vars /\ WF_vars(NextBridge)

----------------------------------------------------------------------------
(* Vocabulary of the properties *)

\* the combined preference score of a backend in the wrapper
Score(key) == SumPreferences(wrapper, key)

\* the instances that have the requested method, in instantiation order
Candidates == HandlersFor(wrapper.handler_dict, "execute")

\* the keys whose is_available was called, in call order
ProbedKeys ==
    LET probes == SelectSeq(log, LAMBDA e : e.op = "is_available")
    IN  [i \in 1 .. Len(probes) |-> probes[i].key]

\* the fallback policy as the caller passed it
FallbackAllowed(key) == ctor.fallback_jsi.all \/ key \in ctor.fallback_jsi.keys

\* the include and exclude lists as the caller passed them
Permitted(key) ==
    /\ ctor.only_include # <<>> => key \in Range(ctor.only_include)
    /\ key \notin ctor.exclude

PositionIn(s, x) == CHOOSE i \in 1 .. Len(s) : s[i] = x

IsFailedCall(e) == e.op = "execute" /\ e.result \in ExtractorErrors

IsCancelledCall(e) == e.op = "execute" /\ e.result \in OtherExceptions

----------------------------------------------------------------------------
(* C1 *)

\* C1: the backends are probed in descending order of combined score, no
\* backend is probed twice, no candidate that scores higher than a probed
\* one is passed over, and once a method has returned the call is over with
\* that return as the last backend method entered: nothing ranked lower is
\* probed or invoked after it.
C1_DescendingFirstSuccessWins ==
    LET keys == ProbedKeys
    IN  /\ \A i, j \in 1 .. Len(keys) :
              i < j => keys[i] # keys[j] /\ Score(keys[i]) >= Score(keys[j])
        /\ \A i \in 1 .. Len(keys) : \A c \in Range(Candidates) \ Range(keys) :
              Score(c) <= Score(keys[i])
        /\ outcome.kind = "returned" =>
              /\ pc = "done"
              /\ log # <<>>
              /\ Last(log) = [op |-> "execute", key |-> outcome.by, result |-> "returned"]
              /\ \A i \in 1 .. Len(log) - 1 : log[i].result # "returned"

\* three candidates with three different scores; the first did not succeed,
\* the second returned, the third was never touched
C1_Witness ==
    /\ pc = "done"
    /\ outcome.kind = "returned"
    /\ Len(handlers) = 3
    /\ outcome.by = handlers[2]
    /\ Score(handlers[1]) > Score(handlers[2])
    /\ Score(handlers[2]) > Score(handlers[3])
    /\ Range(ProbedKeys) = {handlers[1], handlers[2]}

----------------------------------------------------------------------------
(* C2 *)

\* C2: for every method call that ended with an ExtractorError: if the
\* key is in the fallback set the caller gave (or the policy is "all"), the
\* error is recorded and the loop is at, or has passed, the next candidate,
\* and the error is not the outcome; if the key is not in it, that call is
\* the last backend method entered and its error is the outcome.
C2_FallbackIffInFallbackSet ==
    \A i \in 1 .. Len(log) : IsFailedCall(log[i]) =>
        LET key == log[i].key
            p == PositionIn(handlers, key)
        IN  IF FallbackAllowed(key)
            THEN /\ \E e \in Range(exceptions) : e.jsi = key
                 /\ ~(outcome.message = "exception of the handler" /\ outcome.by = key)
                 /\ IF i < Len(log)
                    THEN /\ p < Len(handlers)
                         /\ log[i + 1].op = "is_available"
                         /\ log[i + 1].key = handlers[p + 1]
                    ELSE \/ pc = "loop" /\ idx = p + 1
                         \/ /\ pc = "done"
                            /\ p = Len(handlers)
                            /\ outcome.n_errors = Len(exceptions)
            ELSE /\ i = Len(log)
                 /\ pc = "done"
                 /\ outcome.kind = log[i].result
                 /\ outcome.by = key
                 /\ outcome.message = "exception of the handler"
                 /\ \A e \in Range(exceptions) : e.jsi # key

\* one backend failed and was passed over, the next one failed and ended the call
C2_Witness ==
    \E i, j \in 1 .. Len(log) :
        /\ i < j
        /\ IsFailedCall(log[i]) /\ FallbackAllowed(log[i].key)
        /\ IsFailedCall(log[j]) /\ ~FallbackAllowed(log[j].key)
        /\ j = Len(log)
        /\ Len(handlers) = 3
        /\ log[j].key = handlers[2]

----------------------------------------------------------------------------
(* C3 *)

\* C3: a lookup with features inside _ALL_FEATURES and with neither
\* only_include nor exclude returns each registered key whose declared
\* features contain every requested one, once, and no other key;
\* filter_jsi_feature returns the same list.
C3_LookupIsExactSuperset ==
    (/\ lookup.called
     /\ lookup.features \subseteq ALL_FEATURES
     /\ lookup.only_include = <<>>
     /\ lookup.exclude = {}) =>
        LET eligible == {key \in Range(lookup.registry) :
                            \A f \in lookup.features : f \in SUPPORTED_FEATURES(key)}
        IN  /\ Range(lookup.keys) = eligible
            /\ Len(lookup.keys) = Cardinality(eligible)
            /\ lookup.by_feature = lookup.keys

\* two registered classes share a feature with the request and are left out
C3_Witness ==
    /\ lookup.called
    /\ lookup.features = {"wasm", "dom"}
    /\ lookup.only_include = <<>>
    /\ lookup.exclude = {}
    /\ Range(lookup.registry) = {"A", "B", "C"}
    /\ lookup.keys = <<"A">>

----------------------------------------------------------------------------
(* C4 *)

\* C4: every backend that is instantiated, probed or invoked is inside
\* only_include when that list is not empty and is outside exclude.
C4_OnlyPermittedBackendsTouched ==
    /\ \A i \in 1 .. Len(log) : Permitted(log[i].key)
    /\ \A key \in Range(wrapper.handler_dict) : Permitted(key)
    /\ \A key \in Range(handlers) : Permitted(key)

\* a call went through while a class that supports the features and outscores
\* every instance was kept out by only_include
C4_Witness ==
    /\ outcome.kind = "returned"
    /\ ctor.only_include # <<>>
    /\ \E key \in Range(JSI_HANDLERS) :
          /\ key \notin Range(ctor.only_include)
          /\ ctor.features \subseteq SUPPORTED_FEATURES(key)
          /\ \A c \in Range(wrapper.handler_dict) : Score(key) > Score(c)

----------------------------------------------------------------------------
(* C5 *)

----------------------------------------------------------------------------
(* C6 *)

\* C6: outside test mode, when the call is over and every candidate has
\* answered is_available with False, the error raised is "No available JSI
\* installed" listing every candidate in the order tried, the list of
\* exceptions is empty and no method was invoked.
C6_AllUnavailableIsExhausted ==
    (/\ pc = "done"
     /\ ~wrapper.is_test
     /\ handlers # <<>>
     /\ \A c \in Range(Candidates) : \E i \in 1 .. Len(log) :
            log[i] = [op |-> "is_available", key |-> c, result |-> "False"]) =>
        /\ outcome.kind = "ExtractorError"
        /\ outcome.message = "No available JSI installed, please install one of"
        /\ outcome.listed = [i \in 1 .. Len(handlers) |-> JSI_NAME(handlers[i])]
        /\ Range(outcome.listed) = Range(Candidates)
        /\ exceptions = <<>>
        /\ outcome.n_errors = 0
        /\ \A i \in 1 .. Len(log) : log[i].op = "is_available"

\* three candidates, all unavailable
C6_Witness ==
    /\ pc = "done"
    /\ ~wrapper.is_test
    /\ Len(handlers) = 3
    /\ Len(log) = 3
    /\ \A i \in 1 .. 3 : log[i].result = "False"
    /\ outcome.message = "No available JSI installed, please install one of"

----------------------------------------------------------------------------
(* C7 *)

----------------------------------------------------------------------------
(* C8 *)

\* C8: a method call that ended with an exception that is no
\* ExtractorError (the user's interrupt) is the last backend method entered,
\* the call is over with that exception as its outcome, and the exception is
\* not in the list of recorded errors, whatever the fallback set.
C8_CancellationAbortsPerform ==
    \A i \in 1 .. Len(log) : IsCancelledCall(log[i]) =>
        /\ i = Len(log)
        /\ pc = "done"
        /\ outcome.kind = log[i].result
        /\ outcome.by = log[i].key
        /\ outcome.message = "exception of the handler"
        /\ \A e \in Range(exceptions) : e.jsi # log[i].key /\ e.error \notin OtherExceptions

\* interrupted in the first of three candidates under the policy "all"
C8_Witness ==
    /\ pc = "done"
    /\ outcome.kind = "KeyboardInterrupt"
    /\ ctor.fallback_jsi.all
    /\ Len(handlers) = 3
    /\ outcome.by = handlers[1]
    /\ ProbedKeys = <<handlers[1]>>

----------------------------------------------------------------------------
(* C9 *)

\* C9, as claimed: an execute call that passes html without the dom
\* feature, or cookiejar without the cookies feature, by keyword or by
\* position, is over with the "feature is required" error and no backend
\* method was entered.
C9_MissingFeatureFailsBeforeDispatch ==
    (/\ request.method_name = "execute"
     /\ \/ request.html # "absent" /\ "dom" \notin wrapper.features
        \/ request.cookiejar # "absent" /\ "cookies" \notin wrapper.features) =>
        /\ pc = "done"
        /\ outcome.message = "feature is required for param but not declared"
        /\ log = <<>>

----------------------------------------------------------------------------
(* C10 *)

\* a registered scorer that returns 2 for the key
ScorerOfTwoFor(key) ==
    \E i \in 1 .. Len(wrapper.global_prefs) :
        LET f == wrapper.global_prefs[i]
        IN  f.kind = "const" /\ f.score = 2 /\ (f.types = {} \/ key \in f.types)

\* a registered scorer, other than _base_preference, that applies to the key
MentionedByScorer(key) ==
    \E i \in 1 .. Len(wrapper.global_prefs) :
        LET f == wrapper.global_prefs[i]
        IN  f.kind = "const" /\ (f.types = {} \/ key \in f.types)

FirstInPreferredOrder(key) ==
    wrapper.preferred_order # <<>> /\ wrapper.preferred_order[1] = key

----------------------------------------------------------------------------
(* C11 *)

\* the three messages of the error raised behind the loop
ExhaustedMessages ==
    {"No available JSI installed, please install one of",
     "Failed to perform, total errors. You can try installing one of unavailable JSI",
     "Failed to perform, total errors"}

\* the messages that tell the user what to install
InstallSuggestions ==
    {"No available JSI installed, please install one of",
     "Failed to perform, total errors. You can try installing one of unavailable JSI"}

\* C11, as claimed: the error raised behind the loop names every backend
\* recorded in unavailable and the backend of every recorded (backend, error)
\* pair, and it is one of the install suggestions when unavailable is not
\* empty.
C11_ExhaustedErrorNamesEveryRecord ==
    (pc = "done" /\ outcome.message \in ExhaustedMessages) =>
        /\ \A i \in 1 .. Len(unavailable) : unavailable[i] \in Range(outcome.listed)
        /\ \A e \in Range(exceptions) : JSI_NAME(e.jsi) \in Range(outcome.listed)
        /\ unavailable # <<>> => outcome.message \in InstallSuggestions

----------------------------------------------------------------------------
(* C12 *)

IsUnavailableProbe(e) == e.op = "is_available" /\ e.result = "False"

\* C12: for every is_available call that answered False.  In test mode
\* it is the last backend method entered, the call is over with the "is not
\* available for testing" error naming that backend, and nothing is recorded
\* in unavailable.  Outside test mode the backend is recorded in unavailable,
\* its method is never entered, and the loop goes to the next candidate: the
\* next method entered is the probe of the next candidate, or the loop is at
\* it, or the candidates are exhausted.
C12_UnavailableIsFatalOnlyInTestMode ==
    /\ wrapper.is_test => unavailable = <<>>
    /\ \A i \in 1 .. Len(log) : IsUnavailableProbe(log[i]) =>
          LET key == log[i].key
              p == PositionIn(handlers, key)
          IN  IF wrapper.is_test
              THEN /\ i = Len(log)
                   /\ pc = "done"
                   /\ outcome.kind = "ExtractorError"
                   /\ outcome.message = "is not available for testing"
                   /\ outcome.by = key
                   /\ outcome.listed = <<JSI_NAME(key)>>
              ELSE /\ JSI_NAME(key) \in Range(unavailable)
                   /\ \A j \in 1 .. Len(log) : log[j].key = key => log[j].op = "is_available"
                   /\ IF i < Len(log)
                      THEN /\ p < Len(handlers)
                           /\ log[i + 1].op = "is_available"
                           /\ log[i + 1].key = handlers[p + 1]
                      ELSE \/ pc = "loop" /\ idx = p + 1
                           \/ /\ pc = "done"
                              /\ p = Len(handlers)
                              /\ outcome.message \in ExhaustedMessages

\* test mode: the first candidate failed and was passed over, the second is
\* unavailable and ends the call, the third is never probed
C12_Witness ==
    /\ wrapper.is_test
    /\ pc = "done"
    /\ Len(handlers) = 3
    /\ Len(log) = 3
    /\ IsFailedCall(log[2])
    /\ IsUnavailableProbe(log[3])
    /\ log[3].key = handlers[2]
    /\ outcome.message = "is not available for testing"

----------------------------------------------------------------------------
(* C13 *)

\* the call got past the guard of require_features into _dispatch_request
Dispatched ==
    /\ request.method_name # ""
    /\ outcome.message # "feature is required for param but not declared"

\* C13: the candidates of a call are exactly the instances that have
\* the requested method, in instantiation order; no method of an instance
\* without it is ever entered, not even is_available; and the call ends with
\* "No JSI supports method", listing the instances, with no backend method
\* entered, exactly when no instance has the method.
C13_OnlyHandlersWithTheMethod ==
    /\ \A i \in 1 .. Len(log) : request.method_name \in METHODS(log[i].key)
    /\ \A key \in Range(handlers) : request.method_name \in METHODS(key)
    /\ pc \in {"loop", "inflight"} =>
          Range(handlers) = {key \in Range(wrapper.handler_dict) :
                                request.method_name \in METHODS(key)}
    /\ Dispatched =>
          ((\A key \in Range(wrapper.handler_dict) : request.method_name \notin METHODS(key))
              <=> outcome.message = "No JSI supports method")
    /\ outcome.message = "No JSI supports method" =>
          /\ pc = "done"
          /\ outcome.kind = "ExtractorError"
          /\ outcome.listed = wrapper.handler_dict
          /\ handlers = <<>>
          /\ log = <<>>

\* the only instance has no execute method
C13_Witness ==
    /\ pc = "done"
    /\ request.method_name = "execute"
    /\ wrapper.handler_dict = <<"D">>
    /\ outcome.message = "No JSI supports method"
    /\ log = <<>>

----------------------------------------------------------------------------
(* C14 *)

\* the registered keys that declare every requested feature and that
\* only_include and exclude let through
Eligible ==
    {key \in Range(JSI_HANDLERS) :
        /\ \A f \in ctor.features : f \in SUPPORTED_FEATURES(key)
        /\ Permitted(key)}

\* C14: a constructor call raises "No JSI supports features" exactly
\* when it makes the lookup, which it does once the features are all inside
\* _ALL_FEATURES, and no registered key is eligible.  The error names the
\* requested features, and no instance and no wrapper is made.  When some key
\* is eligible the constructor makes an instance of each eligible key.
C14_NoEligibleBackendIffLookupEmpty ==
    ctor.called =>
        /\ ctor.error.kind = "No JSI supports features" <=>
              (ctor.features \subseteq ALL_FEATURES /\ Eligible = {})
        /\ ctor.error.kind = "No JSI supports features" =>
              /\ ctor.error.tags = ctor.features
              /\ ctor.instantiated = <<>>
              /\ ~wrapper.alive
              /\ log = <<>>
        /\ (ctor.features \subseteq ALL_FEATURES /\ Eligible # {}) =>
              /\ ctor.error = NoError
              /\ wrapper.alive
              /\ Range(ctor.instantiated) = Eligible

\* every registered class is left out: A, C and D by only_include, B because
\* it does not declare wasm
C14_Witness ==
    /\ ctor.called
    /\ ctor.features = {"wasm", "dom"}
    /\ ctor.only_include = <<"B">>
    /\ ctor.instantiated = <<>>
    /\ ctor.error.kind = "No JSI supports features"
    /\ ctor.error.tags = {"wasm", "dom"}

----------------------------------------------------------------------------
(* C15 *)

----------------------------------------------------------------------------
(* C16 *)

\* C16, as claimed: a call of _playwright_eval that has started
\* eventually returns or raises, whichever step never completes, and when the
\* timeout has fired the browser is closed.
C16_BridgeAlwaysReturns ==
    /\ (bridge.pc # "idle") ~> (bridge.pc = "done")
    /\ [](bridge.timed_out => bridge.browser = "closed")

----------------------------------------------------------------------------
(* C17 *)

IsPrefix(s, t) == Len(s) <= Len(t) /\ SubSeq(t, 1, Len(s)) = s

\* no two entries of the registry have the same key, and every entry declares
\* features of _ALL_FEATURES only
RegistryWellFormed ==
    /\ \A i, j \in 1 .. Len(JSI_HANDLERS) :
          JSI_KEY(JSI_HANDLERS[i]) = JSI_KEY(JSI_HANDLERS[j]) => i = j
    /\ \A i \in 1 .. Len(JSI_HANDLERS) :
          SUPPORTED_FEATURES(JSI_HANDLERS[i]) \subseteq ALL_FEATURES

\* a call of register_jsi never replaces or moves an entry, so a key keeps the
\* class of the first call that registered it; the call fails, leaving the
\* registry as it was, exactly when the key of its class is present or the
\* class declares a feature outside _ALL_FEATURES, and otherwise puts its
\* class behind the others
RegisterStep ==
    LET call == threads'["t1"]
        present == \E i \in 1 .. Len(JSI_HANDLERS) :
                       JSI_KEY(JSI_HANDLERS[i]) = JSI_KEY(call.cls)
        undeclared == SUPPORTED_FEATURES(call.cls) \ ALL_FEATURES # {}
    IN  /\ IsPrefix(JSI_HANDLERS, JSI_HANDLERS')
        /\ call.pc = "done"
        /\ IF present \/ undeclared
           THEN call.result = "AssertionError" /\ JSI_HANDLERS' = JSI_HANDLERS
           ELSE call.result = "registered" /\ JSI_HANDLERS' = Append(JSI_HANDLERS, call.cls)

\* C17: after any sequence of register_jsi calls every key has one
\* entry in the registry, that of the first call that registered it, every
\* entry declares features of _ALL_FEATURES only, and a call with a key that
\* is present or with a feature outside _ALL_FEATURES raises and leaves the
\* registry unchanged.
C17_RegistryKeepsFirstRegistration ==
    []RegistryWellFormed /\ [][RegisterStep]_vars

\* A2 registered the key of A, two more classes followed, and the call for
\* A then failed
C17_Witness ==
    /\ Len(JSI_HANDLERS) = 3
    /\ JSI_HANDLERS[1] = "A2"
    /\ threads["t1"] = [pc |-> "done", cls |-> "A", result |-> "AssertionError"]

----------------------------------------------------------------------------
(* C18 *)

\* the call of the thread has returned its class
Registered(t) == threads[t].pc = "done" /\ threads[t].result = "registered"

\* C18, as claimed: whatever the interleaving of the assertions and
\* the insertions of two threads, the last calls of the two threads have not
\* both succeeded with the same key: one of them has failed.
C18_ConcurrentRegisterAtMostOneSucceeds ==
    \A t, u \in Threads :
        (t # u /\ Registered(t) /\ Registered(u)) =>
            JSI_KEY(threads[t].cls) # JSI_KEY(threads[u].cls)

----------------------------------------------------------------------------
(* C19 *)

\* s lists some elements of t, each once, in the order they have in t
InOrderOf(s, t) ==
    /\ Range(s) \subseteq Range(t)
    /\ \A i, j \in 1 .. Len(s) : i < j => PositionIn(t, s[i]) < PositionIn(t, s[j])

\* C19: the keys the constructor gets from the lookup are the eligible
\* keys in the order of the registry, whatever the order of only_include; the
\* candidates of a call are tried by descending summed score and, where two
\* scores are equal, in the order of the registry, so that the order of the
\* attempts is fixed by the registry order and the scores.
C19_RegistryOrderBreaksTies ==
    /\ InOrderOf(ctor.instantiated, JSI_HANDLERS)
    /\ InOrderOf(wrapper.handler_dict, JSI_HANDLERS)
    /\ wrapper.alive => Range(wrapper.handler_dict) = Eligible
    /\ \A i, j \in 1 .. Len(handlers) : i < j =>
          \/ preferences[handlers[i]] > preferences[handlers[j]]
          \/ /\ preferences[handlers[i]] = preferences[handlers[j]]
             /\ PositionIn(JSI_HANDLERS, handlers[i]) < PositionIn(JSI_HANDLERS, handlers[j])
    /\ InOrderOf(ProbedKeys, handlers)

\* only_include names C before B, the registry has B before C, the two have
\* the same score, and B was tried before C
C19_Witness ==
    /\ ctor.only_include = <<"C", "B">>
    /\ PositionIn(JSI_HANDLERS, "B") < PositionIn(JSI_HANDLERS, "C")
    /\ handlers = <<"B", "C">>
    /\ preferences["B"] = preferences["C"]
    /\ ProbedKeys = <<"B", "C">>

----------------------------------------------------------------------------
(* C20 *)

\* both keys are in the list, and a comes first
ListedBefore(list, a, b) ==
    /\ a \in Range(list) /\ b \in Range(list)
    /\ PositionIn(list, a) < PositionIn(list, b)

\* what the registered scorers, _base_preference among them, give the key
GlobalScore(key) ==
    SumSeq([i \in 1 .. Len(wrapper.global_prefs) |->
               CallPreference(wrapper.global_prefs[i], key)])

\* C20, as claimed: when the user's jsi_preference list has a before b,
\* preferred_order has b before a and the registered scorers give both the
\* same score, a is tried before b.
C20_OperatorOrderOutweighsSessionOrder ==
    \A a, b \in Range(handlers) :
        (/\ ListedBefore(wrapper.user_prefs, a, b)
         /\ ListedBefore(wrapper.preferred_order, b, a)
         /\ GlobalScore(a) = GlobalScore(b)) =>
            PositionIn(handlers, a) < PositionIn(handlers, b)

----------------------------------------------------------------------------
(* C22 *)

\* the entries of the list that are registered keys, in the order of the list
RegisteredEntries(list) == SelectSeq(list, LAMBDA k : k \in Range(JSI_HANDLERS))

----------------------------------------------------------------------------
(* C23 *)

\* the keys whose method was entered, in call order
InvokedKeys ==
    LET calls == SelectSeq(log, LAMBDA e : e.op # "is_available")
    IN  [i \in 1 .. Len(calls) |-> calls[i].key]

NoRepeats(s) == \A i, j \in 1 .. Len(s) : s[i] = s[j] => i = j

\* the backends of the recorded (handler, error) pairs
FailedKeys == {e.jsi : e \in Range(exceptions)}

\* C23: within one call every candidate is probed at most once and
\* invoked at most once, in the order of the candidate list; a method is
\* entered only right after is_available of the same backend answered True;
\* only the last method entered can still be running; and when the call ends
\* with the error raised behind the loop, the backends in unavailable and the
\* backends in exceptions are disjoint and together are the candidates, each
\* recorded once.
C23_OnePassOverTheCandidates ==
    /\ NoRepeats(ProbedKeys)
    /\ NoRepeats(InvokedKeys)
    /\ NoRepeats(handlers)
    /\ InOrderOf(ProbedKeys, handlers)
    /\ InOrderOf(InvokedKeys, handlers)
    /\ \A i \in 1 .. Len(log) :
          /\ log[i].op # "is_available" =>
                /\ i > 1
                /\ log[i - 1] = [op |-> "is_available", key |-> log[i].key, result |-> "True"]
          /\ log[i].result = "running" => (i = Len(log) /\ pc = "inflight")
    /\ (pc = "done" /\ outcome.message \in ExhaustedMessages) =>
          /\ Range(unavailable) \cap FailedKeys = {}
          /\ Range(unavailable) \cup FailedKeys = Range(handlers)
          /\ Len(unavailable) + Len(exceptions) = Len(handlers)
          /\ Range(ProbedKeys) = Range(handlers)
          /\ Range(InvokedKeys) = FailedKeys

\* three candidates: one unavailable, two failed, and the call is over
C23_Witness ==
    /\ pc = "done"
    /\ outcome.message \in ExhaustedMessages
    /\ Len(handlers) = 3
    /\ Len(unavailable) = 1
    /\ Len(exceptions) = 2
    /\ Len(log) = 5

----------------------------------------------------------------------------
(* C24 *)

\* the wrapper is as the constructor built it from its arguments
SessionAsConstructed ==
    wrapper.alive =>
        /\ wrapper.handler_dict = ctor.instantiated
        /\ wrapper.features = ctor.features
        /\ wrapper.fallback_jsi = IF ctor.fallback_jsi.all THEN Range(ctor.instantiated)
                                  ELSE ctor.fallback_jsi.keys
        /\ wrapper.is_test = params.test
        /\ wrapper.preferred_order = ctor.preferred_order
        /\ wrapper.global_prefs = JSI_PREFERENCES

\* no step of a call writes the wrapper, the registries or params, and a call
\* that follows another one has the candidates and the scores of that one
PerformFrame ==
    wrapper.alive =>
        /\ wrapper' = wrapper
        /\ ctor' = ctor
        /\ JSI_HANDLERS' = JSI_HANDLERS
        /\ JSI_PREFERENCES' = JSI_PREFERENCES
        /\ params' = params
        /\ (pc = "done" /\ handlers # <<>> /\ pc' = "loop") =>
              (handlers' = handlers /\ preferences' = preferences)

\* C24: from its construction on the wrapper keeps its instances,
\* features, fallback set, test flag and scorers through every call, however
\* the call ends, and a call made after another one tries the same candidates
\* in the same order.
C24_PerformLeavesSessionUnchanged ==
    []SessionAsConstructed /\ [][PerformFrame]_vars

\* a call ended with the error raised behind the loop after two backends
\* failed, and the wrapper still has its three instances
C24_Witness ==
    /\ pc = "done"
    /\ outcome.message \in ExhaustedMessages
    /\ Len(exceptions) >= 2
    /\ wrapper.alive
    /\ Len(wrapper.handler_dict) = 3
    /\ wrapper.handler_dict = ctor.instantiated
    /\ wrapper.fallback_jsi = Range(wrapper.handler_dict)

----------------------------------------------------------------------------
(* C21 *)

\* 1-based index of the first occurrence of the key in the list
FirstIndex(list, key) ==
    CHOOSE i \in 1 .. Len(list) : list[i] = key /\ \A j \in 1 .. i - 1 : list[j] # key

\* C21, as claimed: the key at index i (from 0) of a list of n keys
\* scores (n - i) * multiplier, a key that is not listed scores 0, and an
\* earlier entry scores more than a later one.
C21_EveryEntryScoresByItsIndex ==
    helper.fn = "order_to_pref" =>
        LET list == helper.jsi_order
            n == Len(list)
        IN  /\ \A i \in 1 .. n : helper.result[list[i]] = (n - (i - 1)) * helper.multiplier
            /\ \A key \in AnyKeys \ Range(list) : helper.result[key] = 0
            /\ \A i, j \in 1 .. n : i < j => helper.result[list[i]] > helper.result[list[j]]

\* C21, amended: a listed key scores (n - i) * multiplier for the
\* index i (from 0) of its first occurrence, its later occurrences change
\* nothing, a key that is not listed scores 0, and of two keys the one that
\* occurs first in the list scores more.
C21_KeyScoresByItsFirstOccurrence ==
    helper.fn = "order_to_pref" =>
        LET list == helper.jsi_order
            n == Len(list)
        IN  /\ \A key \in Range(list) :
                  helper.result[key] = (n - (FirstIndex(list, key) - 1)) * helper.multiplier
            /\ \A key \in AnyKeys \ Range(list) : helper.result[key] = 0
            /\ \A a, b \in Range(list) :
                  FirstIndex(list, a) < FirstIndex(list, b) =>
                      helper.result[a] > helper.result[b]

\* A is listed first and last: it scores as the first of three, above B
C21_Witness ==
    /\ helper.fn = "order_to_pref"
    /\ helper.jsi_order = <<"A", "B", "A">>
    /\ helper.multiplier = 100
    /\ helper.result["A"] = 300
    /\ helper.result["B"] = 200
    /\ helper.result["C"] = 0

----------------------------------------------------------------------------
(* C25 *)

\* the complete script elements of the document from pos on, from left to
\* right: an opening tag, the text up to the next closing tag, and that tag;
\* the search for the next element starts behind the closing tag
RECURSIVE ScriptElements(_, _)
ScriptElements(html, pos) ==
    LET open == SearchScriptTag(html, pos)
    IN  IF open = <<>> THEN <<>>
        ELSE LET close == find(html, ScriptClose, open[2])
             IN  IF close = -1 THEN <<>>
                 ELSE <<[start |-> open[1], body |-> Slice(html, open[2], close),
                         end |-> close + Len(ScriptClose)]>>
                      \o ScriptElements(html, close + Len(ScriptClose))

\* the characters of the document that are in none of the elements, in order
RECURSIVE Outside(_, _, _)
Outside(html, elements, pos) ==
    IF elements = <<>> THEN Slice(html, pos, Len(html))
    ELSE Slice(html, pos, Head(elements).start)
         \o Outside(html, Tail(elements), Head(elements).end)

\* C25: extract_script_tags returns the input without the text of its
\* complete script elements, every other character kept in order, and the
\* bodies of those elements in document order.
C25_EveryScriptElementRemoved ==
    helper.fn = "extract_script_tags" =>
        LET elements == ScriptElements(helper.html, 0)
        IN  /\ helper.result.html = Outside(helper.html, elements, 0)
            /\ helper.result.inline_scripts =
                   [i \in 1 .. Len(elements) |-> elements[i].body]


=============================================================================
